---- MODULE Spec2Model ----
(***************************************************************************)
(* Model of the gce-gen cloud wrapper: the resource-URL parser of          *)
(* pkg/cloud/utils.go and the mock and real adapters that the generator    *)
(* templates (genTypes) emit for every service.                            *)
(*                                                                         *)
(* A Go string is modelled as a sequence of tokens.  "/" is a token of its *)
(* own, every other token is a run of characters without a slash, so that  *)
(* strings.HasPrefix and strings.Split are computed on the text and not    *)
(* assumed.  "" is the empty sequence.                                     *)
(***************************************************************************)
EXTENDS Integers, Sequences, FiniteSets, TLC

VARIABLES
    \* ---- ParseResourceURL ----
    url,        \* the argument of ParseResourceURL
    input,      \* how the argument was put together: [pre, segs] (history)
    ppc,        \* "start" before the call, "done" after it
    pres,       \* the pair ParseResourceURL returned: [ret, err]
    \* ---- one mock adapter (Mock<Service>) ----
    kt,          \* the key type of the service: "global", "regional", "zonal"
    Objects,     \* map[meta.Key]*Object
    GetError,    \* map[meta.Key]error
    ListError,   \* *error
    InsertError, \* map[meta.Key]error
    DeleteError, \* map[meta.Key]error
    Hooks,       \* the hook fields that are not nil
    call,        \* the call that the last step made, with what it returned
    hist,        \* per key: the last successful default Insert or Delete (history)
    \* ---- one real adapter (GCE<Service>) and one call of it ----
    svc,        \* the service the adapter was generated for
    rpc,        \* where the call stands: idle, accept, project, do, pages, wait, done
    rcall,      \* the method called and its arguments
    rproj,      \* projectID
    rall,       \* List: all
    rop,        \* op, the Operation that call.Do() returned
    rret,       \* what the method returned: [val, err]
    rtrace,     \* the calls made on the Service's collaborators, in order (history)
    rreply,     \* what the transport and WaitForCompletion answered, in order (history)
    \* ---- callers that share one mock adapter ----
    Lock,       \* m.Lock: Nil when unlocked, else who locked it (the who is history)
    stack,      \* per caller: the frames of its calls of the mock, innermost last
    seqStore,   \* the store of a mock that runs the calls one at a time (history)
    \* ---- one call of ResourceID.Equal ----
    eqa,        \* the receiver r
    eqb,        \* the argument other
    epc,        \* "start" before the call, "done" after it
    eres,       \* a.Equal(b), b.Equal(a) and a.Equal(a): [ab, ba, aa]
    \* ---- one MockGCE ----
    facade,     \* the fields of the MockGCE: per service the pointer to its mock
    heap,       \* the mocks the pointers point to
    fgot,       \* per service: the pointers its accessor has returned (history)
    fcall       \* the call that the last step made through an accessor

pvars == <<url, input, ppc, pres>>

mvars == <<kt, Objects, GetError, ListError, InsertError, DeleteError, Hooks, call, hist>>

rvars == <<svc, rpc, rcall, rproj, rall, rop, rret, rtrace, rreply>>

cvars == <<Lock, stack, seqStore>>

evars == <<eqa, eqb, epc, eres>>

fvars == <<facade, heap, fgot, fcall>>

vars == <<pvars, mvars, rvars, cvars, evars, fvars>>

\* Go's nil (a nil pointer, a nil error, a nil func).
Nil == [nil |-> TRUE]

\* A one-token Go string.
S(w) == <<w>>

Slash == "/"

-----------------------------------------------------------------------------
(* meta.Key and its constructors (package meta).                           *)

GlobalKey(name) == [Name |-> name, Zone |-> <<>>, Region |-> <<>>]

RegionalKey(name, region) == [Name |-> name, Zone |-> <<>>, Region |-> region]

ZonalKey(name, zone) == [Name |-> name, Zone |-> zone, Region |-> <<>>]

-----------------------------------------------------------------------------
(* pkg/cloud/utils.go                                                      *)

HostPrefix(ver) ==
    <<"https:", Slash, Slash, "www.googleapis.com", Slash, "compute", Slash, ver, Slash>>

gaPrefix == HostPrefix("v1")

alphaPrefix == HostPrefix("alpha")

betaPrefix == HostPrefix("beta")

allPrefixes == <<gaPrefix, alphaPrefix, betaPrefix>>

ResourceID(proj, res, key) == [ProjectID |-> proj, Resource |-> res, Key |-> key]

\* A variant of Equal that compares the Key pointers and not the Keys.
Equal_KeyPointers(r, other) ==
    IF r.ProjectID # other.ProjectID \/ r.Resource # other.Resource THEN FALSE
    ELSE r.Key = Nil /\ other.Key = Nil

\* A variant of Equal that compares the names of the Keys only.
Equal_NameOnly(r, other) ==
    IF r.ProjectID # other.ProjectID \/ r.Resource # other.Resource THEN FALSE
    ELSE IF r.Key # Nil /\ other.Key # Nil THEN r.Key.Name = other.Key.Name
    ELSE IF r.Key = Nil /\ other.Key = Nil THEN TRUE
    ELSE FALSE

\* func (r *ResourceID) Equal(other *ResourceID) bool
Equal(r, other) ==
    IF r.ProjectID # other.ProjectID \/ r.Resource # other.Resource THEN FALSE
    ELSE IF r.Key # Nil /\ other.Key # Nil THEN r.Key = other.Key
    ELSE IF r.Key = Nil /\ other.Key = Nil THEN TRUE
    ELSE FALSE

\* A variant of HasPrefix that looks at the host and "compute/" only and
\* not at the version behind them.
HasPrefix_HostOnly(s, prefix) ==
    /\ Len(s) >= Len(prefix)
    /\ SubSeq(s, 1, Len(prefix) - 2) = SubSeq(prefix, 1, Len(prefix) - 2)

\* strings.HasPrefix
HasPrefix(s, prefix) ==
    /\ Len(s) >= Len(prefix)
    /\ SubSeq(s, 1, Len(prefix)) = prefix

\* strings.Split(s, "/"): n separators give n+1 parts, "" gives [""].
RECURSIVE Split(_)
Split(s) ==
    IF \A i \in 1..Len(s) : s[i] # Slash
    THEN <<s>>
    ELSE LET i == CHOOSE j \in 1..Len(s) :
                      /\ s[j] = Slash
                      /\ \A h \in 1..(j-1) : s[h] # Slash
         IN  <<SubSeq(s, 1, i-1)>> \o Split(SubSeq(s, i+1, Len(s)))

\* errNotValid, made from the argument as it was passed in.
ErrNotValid(u) == [kind |-> "InvalidFormat", url |-> u]

\* A variant of StripPrefix that knows the GA prefix only.
StripPrefix_OnlyGA(u, i) ==
    IF HasPrefix(u, gaPrefix)
    THEN [url |-> SubSeq(u, Len(gaPrefix) + 1, Len(u)), bad |-> FALSE]
    ELSE [url |-> u, bad |-> FALSE]

\* The loop over allPrefixes: the first prefix that matches is cut off and
\* the loop is left.  [url, bad]: bad is the early return of line 73.
RECURSIVE StripPrefix(_, _)
StripPrefix(u, i) ==
    IF i > Len(allPrefixes)
    THEN [url |-> u, bad |-> FALSE]
    ELSE IF HasPrefix(u, allPrefixes[i])
         THEN IF Len(u) < Len(allPrefixes[i])
              THEN [url |-> u, bad |-> TRUE]
              ELSE [url |-> SubSeq(u, Len(allPrefixes[i]) + 1, Len(u)), bad |-> FALSE]
         ELSE StripPrefix(u, i + 1)

\* A failed parse: no ResourceID next to the error.
ParseFail(errNotValid) == [ret |-> Nil, err |-> errNotValid]

ParseOk(proj, res, key) == [ret |-> ResourceID(proj, res, key), err |-> Nil]

\* Lines 95-108: four parts, projects/<proj>/regions|zones/<name>.
\* Go indexes parts from 0, the model from 1.
ParseFour(parts, errNotValid) ==
    CASE parts[3] = S("regions") -> ParseOk(parts[2], S("regions"), GlobalKey(parts[4]))
      [] parts[3] = S("zones")   -> ParseOk(parts[2], S("zones"), GlobalKey(parts[4]))
      [] OTHER -> ParseFail(errNotValid)

\* A variant of ParseLong that leaves out the length checks of lines 112,
\* 119 and 126.
ParseLong_NoLenCheck(parts, errNotValid) ==
    CASE parts[3] = S("global") ->
             ParseOk(parts[2], parts[4], GlobalKey(parts[5]))
      [] parts[3] = S("regions") /\ Len(parts) >= 6 ->
             ParseOk(parts[2], parts[5], RegionalKey(parts[6], parts[4]))
      [] parts[3] = S("zones") /\ Len(parts) >= 6 ->
             ParseOk(parts[2], parts[5], ZonalKey(parts[6], parts[4]))
      [] OTHER -> ParseFail(errNotValid)

\* Lines 110-133: five parts or more.
ParseLong(parts, errNotValid) ==
    CASE parts[3] = S("global") ->
             IF Len(parts) # 5 THEN ParseFail(errNotValid)
             ELSE ParseOk(parts[2], parts[4], GlobalKey(parts[5]))
      [] parts[3] = S("regions") ->
             IF Len(parts) # 6 THEN ParseFail(errNotValid)
             ELSE ParseOk(parts[2], parts[5], RegionalKey(parts[6], parts[4]))
      [] parts[3] = S("zones") ->
             IF Len(parts) # 6 THEN ParseFail(errNotValid)
             ELSE ParseOk(parts[2], parts[5], ZonalKey(parts[6], parts[4]))
      [] OTHER -> ParseFail(errNotValid)

\* A variant of ParseParts that refuses a path with an empty part.
ParseParts_NoEmptyPart(parts, errNotValid) ==
    IF \E i \in DOMAIN parts : parts[i] = <<>> THEN ParseFail(errNotValid)
    ELSE IF Len(parts) < 2 \/ parts[1] # S("projects") THEN ParseFail(errNotValid)
    ELSE IF Len(parts) = 2 THEN ParseOk(parts[2], S("projects"), Nil)
    ELSE IF Len(parts) < 4 THEN ParseFail(errNotValid)
    ELSE IF Len(parts) = 4 THEN ParseFour(parts, errNotValid)
    ELSE ParseLong(parts, errNotValid)

\* Lines 80-134: the switch on the number of parts.
ParseParts(parts, errNotValid) ==
    IF Len(parts) < 2 \/ parts[1] # S("projects") THEN ParseFail(errNotValid)
    ELSE IF Len(parts) = 2 THEN ParseOk(parts[2], S("projects"), Nil)
    ELSE IF Len(parts) < 4 THEN ParseFail(errNotValid)
    ELSE IF Len(parts) = 4 THEN ParseFour(parts, errNotValid)
    ELSE ParseLong(parts, errNotValid)

ParseResourceURL(u) ==
    LET errNotValid == ErrNotValid(u)
        stripped == StripPrefix(u, 1)
    IN  IF stripped.bad
        THEN [ret |-> Nil, err |-> errNotValid]
        ELSE ParseParts(Split(stripped.url), errNotValid)

-----------------------------------------------------------------------------
(* Inputs of the parser: an optional host prefix followed by up to MaxSegs *)
(* segments joined by "/".                                                 *)

MaxSegs == 7

\* What may stand in front of the path: nothing, a known prefix, an unknown
\* API version, a known prefix twice, a known prefix without its last "/".
InputPrefixes ==
    { <<>>, gaPrefix, alphaPrefix, betaPrefix,
      HostPrefix("gamma"),
      gaPrefix \o betaPrefix,
      SubSeq(gaPrefix, 1, Len(gaPrefix) - 1) }

KnownOrNone == { <<>>, gaPrefix, alphaPrefix, betaPrefix }

\* The segments tried at position i of the path.
SegsAt(i) ==
    CASE i = 1 -> { S("projects"), S("a"), <<>> }
      [] i = 2 -> { S("p"), <<>> }
      [] i = 3 -> { S("global"), S("regions"), S("zones"), S("a"), <<>> }
      [] i = 4 -> { S("r"), S("global"), <<>> }
      [] i = 5 -> { S("t"), <<"t", "u">>, <<>> }
      [] i = 6 -> { S("n"), S("zones"), <<>> }
      [] OTHER -> { S("x") }

\* The lists of exactly n segments.
RECURSIVE SegListsOfLen(_)
SegListsOfLen(n) ==
    IF n = 0 THEN { <<>> }
    ELSE { Append(l, s) : l \in SegListsOfLen(n - 1), s \in SegsAt(n) }

SegLists == UNION { SegListsOfLen(n) : n \in 1..MaxSegs }

\* The segments written out with "/" between them.
RECURSIVE Join(_)
Join(segs) ==
    IF Len(segs) = 0 THEN <<>>
    ELSE IF Len(segs) = 1 THEN segs[1]
    ELSE segs[1] \o <<Slash>> \o Join(Tail(segs))

ParseInit ==
    /\ input \in [pre : InputPrefixes, segs : SegLists]
    /\ url = input.pre \o Join(input.segs)
    /\ ppc = "start"
    /\ pres = [ret |-> Nil, err |-> Nil]

\* No call of the parser is under way.
ParseIdle ==
    /\ input = [pre |-> <<>>, segs |-> <<>>]
    /\ url = <<>>
    /\ ppc = "idle"
    /\ pres = [ret |-> Nil, err |-> Nil]

Parse ==
    /\ ppc = "start"
    /\ pres' = ParseResourceURL(url)
    /\ ppc' = "done"
    /\ UNCHANGED <<url, input, mvars, rvars, cvars, evars, fvars>>

\* The caller parses the same path without what stood in front of it and
\* is about to compare the two ResourceIDs.
ParseBare ==
    /\ ppc = "done"
    /\ pres.err = Nil
    /\ eqa' = pres.ret
    /\ eqb' = ParseResourceURL(Join(input.segs)).ret
    /\ epc' = "start"
    /\ eres' = Nil
    /\ ppc' = "bare"
    /\ UNCHANGED <<url, input, pres, mvars, rvars, cvars, fvars>>

-----------------------------------------------------------------------------
(* ResourceID.Equal on its own.                                            *)

\* The ResourceIDs compared: two projects, two resources, no Key or a
\* global, regional or zonal one.
EqualKeys ==
    { Nil, GlobalKey(S("n1")), GlobalKey(S("n2")),
      RegionalKey(S("n1"), S("l1")), ZonalKey(S("n1"), S("l1")) }

EqualIDs ==
    { ResourceID(proj, res, key) :
        proj \in { S("p"), S("q") }, res \in { S("disks"), S("networks") },
        key \in EqualKeys }

EqualInit ==
    /\ eqa \in EqualIDs
    /\ eqb \in EqualIDs
    /\ epc = "start"
    /\ eres = Nil

\* No comparison is under way.
EqualIdle ==
    /\ eqa = Nil
    /\ eqb = Nil
    /\ epc = "idle"
    /\ eres = Nil

\* a.Equal(b), b.Equal(a) and a.Equal(a).  Equal dereferences both
\* pointers: a nil one panics and there is no result.
EqualCall ==
    /\ epc = "start"
    /\ eqa # Nil
    /\ eqb # Nil
    /\ eres' = [ab |-> Equal(eqa, eqb), ba |-> Equal(eqb, eqa), aa |-> Equal(eqa, eqa)]
    /\ epc' = "done"
    /\ UNCHANGED <<eqa, eqb, pvars, mvars, rvars, cvars, fvars>>

-----------------------------------------------------------------------------
(* The mock adapter that genTypes emits for one service.                   *)

KeyTypes == { "global", "regional", "zonal" }

\* The keys the callers use with a service of key type t.
KeysOf(t) ==
    CASE t = "global"   -> { GlobalKey(S("n1")), GlobalKey(S("n2")) }
      [] t = "regional" -> { RegionalKey(S("n1"), S("l1")), RegionalKey(S("n1"), S("l2")) }
      [] t = "zonal"    -> { ZonalKey(S("n1"), S("l1")), ZonalKey(S("n1"), S("l2")) }

\* The regions or zones the callers list.
Locations == { S("l1"), S("l2") }

\* The keys the callers register errors for.
ErrKeysOf(t) ==
    CASE t = "global"   -> { GlobalKey(S("n1")) }
      [] t = "regional" -> { RegionalKey(S("n1"), S("l1")) }
      [] t = "zonal"    -> { ZonalKey(S("n1"), S("l1")) }

\* The objects (pointers) the callers insert.
Objs == { [ptr |-> "o1"], [ptr |-> "o2"] }

\* The object a hook hands back.
HookObj == [ptr |-> "oh"]

\* The values of hist.
Never == [st |-> "never"]

Deleted == [st |-> "deleted"]

\* The errors the callers register.
InjectedErrs == { [kind |-> "injected", id |-> "e1"] }

StatusNotFound == 404

StatusConflict == 409

\* &googleapi.Error{Code: http.StatusNotFound, Message: "<Mock> <key> not found"}
NotFoundError(key) ==
    [kind |-> "googleapi.Error", Code |-> StatusNotFound, Message |-> <<key, "not found">>]

\* &googleapi.Error{Code: http.StatusConflict, Message: "<Mock> <key> exists"}
ExistsError(key) ==
    [kind |-> "googleapi.Error", Code |-> StatusConflict, Message |-> <<key, "exists">>]

\* fmt.Errorf("<Hook> must be set")
MustBeSetError(hook) == [kind |-> "errorString", Message |-> <<hook, "must be set">>]

\* The custom methods of the service (.Methods): one that returns an
\* Operation, one that returns a value.
OperationVerbs == { "OpVerb" }

ValueVerbs == { "ValVerb" }

CustomVerbs == OperationVerbs \cup ValueVerbs

MockHookName(verb) == verb \o "Hook"

HookFields ==
    { "GetHook", "ListHook", "InsertHook", "DeleteHook" }
        \cup { MockHookName(v) : v \in CustomVerbs }

\* What a hook, which is the caller's code, may hand back.
HookErr == [kind |-> "hook"]

\* A hook that handles the call hands back an object or an error; one
\* that declines has its results dropped, whatever they are.
HookObjResults ==
    { [intercept |-> TRUE, val |-> HookObj, err |-> Nil],
      [intercept |-> TRUE, val |-> Nil, err |-> HookErr],
      [intercept |-> FALSE, val |-> HookObj, err |-> HookErr] }

HookListResults ==
    { [intercept |-> TRUE, val |-> <<HookObj>>, err |-> Nil],
      [intercept |-> TRUE, val |-> <<>>, err |-> HookErr],
      [intercept |-> FALSE, val |-> <<HookObj>>, err |-> HookErr] }

HookErrResults ==
    { [intercept |-> TRUE, val |-> Nil, err |-> Nil],
      [intercept |-> TRUE, val |-> Nil, err |-> HookErr],
      [intercept |-> FALSE, val |-> Nil, err |-> HookErr] }

\* m[key] = v
MapSet(m, key, v) == [k \in (DOMAIN m) \cup {key} |-> IF k = key THEN v ELSE m[k]]

\* A variant of MapDelete that empties the map.
MapDelete_Clear(m, key) == << >>

\* delete(m, key)
MapDelete(m, key) == [k \in (DOMAIN m) \ {key} |-> m[k]]

EmptyMap == << >>

NoCall == [op |-> "none"]

Call(op, key, obj, loc, hook, val, err) ==
    [op |-> op, key |-> key, obj |-> obj, loc |-> loc, hook |-> hook, val |-> val, err |-> err]

\* NewMock<Service>(): empty maps, no list error, no hooks.
NewMock ==
    /\ Objects = EmptyMap
    /\ GetError = EmptyMap
    /\ InsertError = EmptyMap
    /\ DeleteError = EmptyMap
    /\ ListError = Nil
    /\ Hooks = {}
    /\ call = NoCall

MockInit ==
    /\ kt \in KeyTypes
    /\ NewMock
    /\ hist = [k \in KeysOf(kt) |-> Never]

\* No mock is in use.
MockIdle ==
    /\ kt = "global"
    /\ NewMock
    /\ hist = EmptyMap

----
\* The bodies under m.Lock: the default logic of the four operations.

\* A variant of GetDefault that looks in the store before the error map.
GetDefault_StoreFirst(objects, getError, key) ==
    IF key \in DOMAIN objects THEN [val |-> objects[key], err |-> Nil]
    ELSE IF key \in DOMAIN getError THEN [val |-> Nil, err |-> getError[key]]
    ELSE [val |-> Nil, err |-> NotFoundError(key)]

\* Get, lines 252-261.
GetDefault(objects, getError, key) ==
    IF key \in DOMAIN getError THEN [val |-> Nil, err |-> getError[key]]
    ELSE IF key \in DOMAIN objects THEN [val |-> objects[key], err |-> Nil]
    ELSE [val |-> Nil, err |-> NotFoundError(key)]

\* A variant of ListKeys that filters zonal services by Region.
ListKeys_RegionOnly(objects, t, loc) ==
    { k \in DOMAIN objects : t \in { "regional", "zonal" } => k.Region = loc }

\* The keys List keeps, lines 284-296.
ListKeys(objects, t, loc) ==
    { k \in DOMAIN objects :
        /\ t = "regional" => k.Region = loc
        /\ t = "zonal" => k.Zone = loc }

\* All the orders in which a Go map can be ranged over.
Orders(keys) ==
    { o \in [1..Cardinality(keys) -> keys] : \A i, j \in DOMAIN o : i # j => o[i] # o[j] }

\* List, lines 280-298: the results it can return.
ListDefault(objects, listError, t, loc) ==
    IF listError # Nil THEN { [val |-> <<>>, err |-> listError] }
    ELSE { [val |-> [i \in DOMAIN o |-> objects[o[i]]], err |-> Nil] :
             o \in Orders(ListKeys(objects, t, loc)) }

\* A variant of InsertDefault that stores the object before it reports
\* that the key exists.
InsertDefault_Overwrite(objects, insertError, key, obj) ==
    IF key \in DOMAIN insertError THEN [err |-> insertError[key], objects |-> objects]
    ELSE IF key \in DOMAIN objects
         THEN [err |-> ExistsError(key), objects |-> MapSet(objects, key, obj)]
         ELSE [err |-> Nil, objects |-> MapSet(objects, key, obj)]

\* Insert, lines 312-323: the error returned and the store afterwards.
InsertDefault(objects, insertError, key, obj) ==
    IF key \in DOMAIN insertError THEN [err |-> insertError[key], objects |-> objects]
    ELSE IF key \in DOMAIN objects THEN [err |-> ExistsError(key), objects |-> objects]
    ELSE [err |-> Nil, objects |-> MapSet(objects, key, obj)]

\* A variant of DeleteDefault that reports success and removes nothing.
DeleteDefault_NoRemove(objects, deleteError, key) ==
    IF key \in DOMAIN deleteError THEN [err |-> deleteError[key], objects |-> objects]
    ELSE IF key \notin DOMAIN objects THEN [err |-> NotFoundError(key), objects |-> objects]
    ELSE [err |-> Nil, objects |-> objects]

\* Delete, lines 337-348.
DeleteDefault(objects, deleteError, key) ==
    IF key \in DOMAIN deleteError THEN [err |-> deleteError[key], objects |-> objects]
    ELSE IF key \notin DOMAIN objects THEN [err |-> NotFoundError(key), objects |-> objects]
    ELSE [err |-> Nil, objects |-> MapDelete(objects, key)]

\* A custom method whose hook is nil, lines 353-363.
CustomNoHook(verb) ==
    IF verb \in OperationVerbs
    THEN [val |-> Nil, err |-> Nil]
    ELSE [val |-> Nil, err |-> MustBeSetError(MockHookName(verb))]

----
\* What a call of hook field h returns to the operation: Nil when the
\* field is nil, else one of the results the hook may hand back.
HookOutcomes(h, results) == IF h \in Hooks THEN results ELSE { Nil }

\* A variant of Intercepted that also returns what a declining hook handed
\* back when that is an error.
Intercepted_OnError(h) == h # Nil /\ (h.intercept \/ h.err # Nil)

\* A variant of Intercepted that runs the hook and goes on regardless.
Intercepted_Never(h) == FALSE

\* if intercept, ... := m.Hook(...); intercept { return ... }
Intercepted(h) == h # Nil /\ h.intercept

MockGet(key) ==
    \E h \in HookOutcomes("GetHook", HookObjResults) :
        LET r == IF Intercepted(h) THEN [val |-> h.val, err |-> h.err]
                 ELSE GetDefault(Objects, GetError, key)
        IN  /\ call' = Call("Get", key, Nil, Nil, h, r.val, r.err)
            /\ UNCHANGED <<pvars, rvars, cvars, evars, fvars, kt, Objects, GetError, ListError, InsertError, DeleteError,
                           Hooks, hist>>

MockList(loc) ==
    \E h \in HookOutcomes("ListHook", HookListResults) :
        \E r \in (IF Intercepted(h) THEN { [val |-> h.val, err |-> h.err] }
                  ELSE ListDefault(Objects, ListError, kt, loc)) :
            /\ call' = Call("List", Nil, Nil, loc, h, r.val, r.err)
            /\ UNCHANGED <<pvars, rvars, cvars, evars, fvars, kt, Objects, GetError, ListError, InsertError, DeleteError,
                           Hooks, hist>>

MockInsert(key, obj) ==
    \E h \in HookOutcomes("InsertHook", HookErrResults) :
        LET r == IF Intercepted(h) THEN [err |-> h.err, objects |-> Objects]
                 ELSE InsertDefault(Objects, InsertError, key, obj)
        IN  /\ Objects' = r.objects
            /\ call' = Call("Insert", key, obj, Nil, h, Nil, r.err)
            /\ hist' = IF ~Intercepted(h) /\ r.err = Nil
                       THEN [hist EXCEPT ![key] = obj] ELSE hist
            /\ UNCHANGED <<pvars, rvars, cvars, evars, fvars, kt, GetError, ListError, InsertError, DeleteError, Hooks>>

MockDelete(key) ==
    \E h \in HookOutcomes("DeleteHook", HookErrResults) :
        LET r == IF Intercepted(h) THEN [err |-> h.err, objects |-> Objects]
                 ELSE DeleteDefault(Objects, DeleteError, key)
        IN  /\ Objects' = r.objects
            /\ call' = Call("Delete", key, Nil, Nil, h, Nil, r.err)
            /\ hist' = IF ~Intercepted(h) /\ r.err = Nil
                       THEN [hist EXCEPT ![key] = Deleted] ELSE hist
            /\ UNCHANGED <<pvars, rvars, cvars, evars, fvars, kt, GetError, ListError, InsertError, DeleteError, Hooks>>

\* A custom method: the hook's result as it is, with no intercept flag.
MockCustom(verb, key) ==
    \E h \in HookOutcomes(MockHookName(verb),
                          { x \in (IF verb \in OperationVerbs THEN HookErrResults
                                   ELSE HookObjResults) : x.intercept }) :
        LET r == IF h # Nil THEN [val |-> h.val, err |-> h.err] ELSE CustomNoHook(verb)
        IN  /\ call' = Call(verb, key, Nil, Nil, h, r.val, r.err)
            /\ UNCHANGED <<pvars, rvars, cvars, evars, fvars, kt, Objects, GetError, ListError, InsertError, DeleteError,
                           Hooks, hist>>

----
\* The test's own writes to the exported fields of the mock.

MaxSetup == 2

\* The number of fields written so far.
Setups ==
    Cardinality(DOMAIN GetError) + Cardinality(DOMAIN InsertError)
        + Cardinality(DOMAIN DeleteError) + (IF ListError = Nil THEN 0 ELSE 1)
        + Cardinality(Hooks)

SetGetError(key, e) ==
    /\ Setups < MaxSetup
    /\ key \notin DOMAIN GetError
    /\ GetError' = MapSet(GetError, key, e)
    /\ call' = NoCall
    /\ UNCHANGED <<pvars, rvars, cvars, evars, fvars, kt, Objects, ListError, InsertError, DeleteError, Hooks, hist>>

SetInsertError(key, e) ==
    /\ Setups < MaxSetup
    /\ key \notin DOMAIN InsertError
    /\ InsertError' = MapSet(InsertError, key, e)
    /\ call' = NoCall
    /\ UNCHANGED <<pvars, rvars, cvars, evars, fvars, kt, Objects, GetError, ListError, DeleteError, Hooks, hist>>

SetDeleteError(key, e) ==
    /\ Setups < MaxSetup
    /\ key \notin DOMAIN DeleteError
    /\ DeleteError' = MapSet(DeleteError, key, e)
    /\ call' = NoCall
    /\ UNCHANGED <<pvars, rvars, cvars, evars, fvars, kt, Objects, GetError, ListError, InsertError, Hooks, hist>>

SetListError(e) ==
    /\ Setups < MaxSetup
    /\ ListError = Nil
    /\ ListError' = e
    /\ call' = NoCall
    /\ UNCHANGED <<pvars, rvars, cvars, evars, fvars, kt, Objects, GetError, InsertError, DeleteError, Hooks, hist>>

SetHook(h) ==
    /\ Setups < MaxSetup
    /\ h \notin Hooks
    /\ Hooks' = Hooks \cup {h}
    /\ call' = NoCall
    /\ UNCHANGED <<pvars, rvars, cvars, evars, fvars, kt, Objects, GetError, ListError, InsertError, DeleteError, hist>>

-----------------------------------------------------------------------------
(* The real adapter that genTypes emits for one service, and the           *)
(* collaborators it calls: RateLimiter, ProjectRouter, the versioned       *)
(* transport and WaitForCompletion.                                        *)

\* The services the templates are run for (meta.AllServices), each with
\* the template fields the adapter uses.
Services ==
    { [Service |-> "Addresses", Object |-> "Address", Version |-> "ga",
       kt |-> "regional", GenerateMutations |-> TRUE],
      [Service |-> "Instances", Object |-> "Instance", Version |-> "alpha",
       kt |-> "zonal", GenerateMutations |-> TRUE],
      [Service |-> "Firewalls", Object |-> "Firewall", Version |-> "beta",
       kt |-> "global", GenerateMutations |-> TRUE],
      [Service |-> "Zones", Object |-> "Zone", Version |-> "ga",
       kt |-> "global", GenerateMutations |-> FALSE] }

\* The key the callers use with a service of key type t.
RealKeyOf(t) ==
    CASE t = "global"   -> GlobalKey(S("n1"))
      [] t = "regional" -> RegionalKey(S("n1"), S("l1"))
      [] t = "zonal"    -> ZonalKey(S("n1"), S("l1"))

\* The objects the callers pass to Insert: the Name field as they set it.
RealObjs == { [ptr |-> "o1", Name |-> <<>>], [ptr |-> "o2", Name |-> S("other")] }

\* ctx: still live, or cancelled before the call.
Contexts == { "live", "cancelled" }

Projects == { "proj-a", "proj-b" }

\* The pages the transport may serve.
PageItems == { <<>>, <<"i1">>, <<"i2", "i3">> }

MaxPages == 2

\* The methods generated for the service s.
MethodsOf(s) ==
    { "Get", "List" } \cup (IF s.GenerateMutations THEN { "Insert", "Delete" } ELSE {})
        \cup CustomVerbs

\* A variant of WaitsForOperation in which only Insert waits.
WaitsForOperation_InsertOnly(method) == method = "Insert"

\* Methods that end in WaitForCompletion.
WaitsForOperation(method) == method \in { "Insert", "Delete" } \cup OperationVerbs

\* A variant of RateLimitKey whose Operation is the one of the Get template.
RateLimitKey_AlwaysGet(method, s) ==
    [Operation |-> "Get", Version |-> s.Version, Target |-> s.Object]

\* rk := &RateLimitKey{Operation: ..., Version: ..., Target: ...}
RateLimitKey(method, s) ==
    [Operation |-> method, Version |-> s.Version, Target |-> s.Object]

\* key.Region or key.Zone, the location argument of a transport call.
KeyLocation(key, t) ==
    CASE t = "global" -> <<>>
      [] t = "regional" -> <<key.Region>>
      [] t = "zonal" -> <<key.Zone>>

\* A variant of CallArgs that passes the object as the caller filled it in.
CallArgs_KeepName(c, s, projectID) ==
    CASE c.method = "List" ->
             <<projectID>> \o (IF s.kt = "global" THEN <<>> ELSE <<c.loc>>)
      [] c.method = "Insert" ->
             <<projectID>> \o KeyLocation(c.key, s.kt) \o << c.obj >>
      [] OTHER ->
             <<projectID>> \o KeyLocation(c.key, s.kt) \o <<c.key.Name>>

\* The arguments of g.s.<Version>.<Service>.<Method>(...).
CallArgs(c, s, projectID) ==
    CASE c.method = "List" ->
             <<projectID>> \o (IF s.kt = "global" THEN <<>> ELSE <<c.loc>>)
      [] c.method = "Insert" ->
             <<projectID>> \o KeyLocation(c.key, s.kt)
                 \o << [c.obj EXCEPT !.Name = c.key.Name] >>
      [] OTHER ->
             <<projectID>> \o KeyLocation(c.key, s.kt) \o <<c.key.Name>>

TransportErr == [kind |-> "transport"]

CancelledErr == [kind |-> "context canceled"]

OperationFailedErr == [kind |-> "operation failed"]

ThrottledErr == [kind |-> "throttled"]

\* What RateLimiter.Accept may answer.
AcceptOutcomes == { Nil, ThrottledErr }

\* What the transport answers to call.Do() or to one page fetch under ctx.
TransportErrs(ctx) == IF ctx = "cancelled" THEN { CancelledErr } ELSE { Nil, TransportErr }

\* What WaitForCompletion may answer under ctx.
WaitOutcomes(ctx) ==
    IF ctx = "cancelled" THEN { CancelledErr } ELSE { Nil, OperationFailedErr, TransportErr }

RealInit ==
    /\ svc \in Services
    /\ rpc = "idle"
    /\ rcall = NoCall
    /\ rproj = Nil
    /\ rall = <<>>
    /\ rop = Nil
    /\ rret = [val |-> Nil, err |-> Nil]
    /\ rtrace = <<>>
    /\ rreply = <<>>

\* No real adapter is in use.
RealIdle ==
    /\ svc = Nil
    /\ rpc = "idle"
    /\ rcall = NoCall
    /\ rproj = Nil
    /\ rall = <<>>
    /\ rop = Nil
    /\ rret = [val |-> Nil, err |-> Nil]
    /\ rtrace = <<>>
    /\ rreply = <<>>

\* A caller enters a method of the adapter.
RealBegin(method, obj, loc, ctx) ==
    /\ rpc \in { "idle", "done" }
    /\ method \in MethodsOf(svc)
    /\ rcall' = [method |-> method,
                 key |-> IF method = "List" THEN Nil ELSE RealKeyOf(svc.kt),
                 obj |-> IF method = "Insert" THEN obj ELSE Nil,
                 loc |-> IF method = "List" /\ svc.kt # "global" THEN loc ELSE Nil,
                 ctx |-> ctx]
    /\ rpc' = "accept"
    /\ rproj' = Nil
    /\ rall' = <<>>
    /\ rop' = Nil
    /\ rret' = [val |-> Nil, err |-> Nil]
    /\ rtrace' = <<>>
    /\ rreply' = <<>>
    /\ UNCHANGED <<pvars, mvars, cvars, evars, fvars, svc>>

\* g.s.RateLimiter.Accept(ctx, rk): whatever it answers is dropped.
RealAccept ==
    /\ rpc = "accept"
    /\ \E res \in AcceptOutcomes :
         rtrace' = Append(rtrace, [ev |-> "Accept", ctx |-> rcall.ctx,
                                   rk |-> RateLimitKey(rcall.method, svc), res |-> res])
    /\ rpc' = "project"
    /\ UNCHANGED <<pvars, mvars, cvars, evars, fvars, svc, rcall, rproj, rall, rop, rret, rreply>>

\* projectID := g.s.ProjectRouter.ProjectID(ctx, "<Version>", "<Service>")
RealProjectID ==
    /\ rpc = "project"
    /\ \E p \in Projects :
         /\ rproj' = p
         /\ rtrace' = Append(rtrace, [ev |-> "ProjectID", ctx |-> rcall.ctx,
                                      version |-> svc.Version, service |-> svc.Service,
                                      res |-> p])
    /\ rpc' = IF rcall.method = "List" THEN "pages" ELSE "do"
    /\ UNCHANGED <<pvars, mvars, cvars, evars, fvars, svc, rcall, rall, rop, rret, rreply>>

\* A variant of CallContext for a call that is never given the caller's
\* context.
CallContext_Background(c) == "live"

\* call.Context(ctx), call.Pages(ctx, f): the context the request runs under.
CallContext(c) == c.ctx

\* The event of one request of the transport.
Request(n) ==
    [ev |-> "Do", service |-> svc.Service, version |-> svc.Version,
     method |-> rcall.method, args |-> CallArgs(rcall, svc, rproj),
     ctx |-> CallContext(rcall), page |-> n]

\* The Operations the transport may hand back.
OpHandles == { [operation |-> "op-1"], [operation |-> "op-2"] }

\* The answer of the transport or of WaitForCompletion, as it is kept in
\* rreply.
Reply(from, err, op, items) == [from |-> from, err |-> err, op |-> op, items |-> items]

\* A variant of RealDo that issues the request once more when it has failed.
RealDo_Retry ==
    /\ rpc = "do"
    /\ rtrace' = Append(rtrace, Request(0))
    /\ \E err \in TransportErrs(CallContext(rcall)) :
         IF err # Nil
         THEN /\ rret' = IF Len(rreply) = 0 THEN rret ELSE [val |-> Nil, err |-> err]
              /\ rpc' = IF Len(rreply) = 0 THEN "do" ELSE "done"
              /\ rop' = rop
              /\ rreply' = Append(rreply, Reply("Do", err, Nil, <<>>))
         ELSE IF WaitsForOperation(rcall.method)
              THEN \E h \in OpHandles :
                     /\ rop' = h
                     /\ rpc' = "wait"
                     /\ rret' = rret
                     /\ rreply' = Append(rreply, Reply("Do", Nil, h, <<>>))
              ELSE /\ rret' = [val |-> [result |-> rcall.method], err |-> Nil]
                   /\ rpc' = "done"
                   /\ rop' = rop
                   /\ rreply' = Append(rreply, Reply("Do", Nil, Nil, <<>>))
    /\ UNCHANGED <<pvars, mvars, cvars, evars, fvars, svc, rcall, rproj, rall>>

\* call := ...; call.Context(ctx); call.Do() and what follows it.
RealDo ==
    /\ rpc = "do"
    /\ rtrace' = Append(rtrace, Request(0))
    /\ \E err \in TransportErrs(CallContext(rcall)) :
         IF err # Nil
         THEN /\ rret' = [val |-> Nil, err |-> err]
              /\ rpc' = "done"
              /\ rop' = rop
              /\ rreply' = Append(rreply, Reply("Do", err, Nil, <<>>))
         ELSE IF WaitsForOperation(rcall.method)
              THEN \E h \in OpHandles :
                     /\ rop' = h
                     /\ rpc' = "wait"
                     /\ rret' = rret
                     /\ rreply' = Append(rreply, Reply("Do", Nil, h, <<>>))
              ELSE /\ rret' = [val |-> [result |-> rcall.method], err |-> Nil]
                   /\ rpc' = "done"
                   /\ rop' = rop
                   /\ rreply' = Append(rreply, Reply("Do", Nil, Nil, <<>>))
    /\ UNCHANGED <<pvars, mvars, cvars, evars, fvars, svc, rcall, rproj, rall>>

\* The pages fetched so far in this call.
PagesFetched == Cardinality({ i \in DOMAIN rtrace : rtrace[i].ev = "Do" })

\* A variant of AppendItems that keeps the last page only.
AppendItems_LastPage(all, items) == items

\* all = append(all, l.Items...)
AppendItems(all, items) == all \o items

\* call.Pages(ctx, f): one page fetch; f appends the page's items to all.
RealPage ==
    /\ rpc = "pages"
    /\ rtrace' = Append(rtrace, Request(PagesFetched + 1))
    /\ \E err \in TransportErrs(CallContext(rcall)) :
         IF err # Nil
         THEN /\ rret' = [val |-> <<>>, err |-> err]
              /\ rpc' = "done"
              /\ rall' = rall
              /\ rreply' = Append(rreply, Reply("Do", err, Nil, <<>>))
         ELSE \E items \in PageItems, more \in BOOLEAN :
                /\ more => PagesFetched + 1 < MaxPages
                /\ rall' = AppendItems(rall, items)
                /\ rreply' = Append(rreply, Reply("Do", Nil, Nil, items))
                /\ IF more
                   THEN rpc' = "pages" /\ rret' = rret
                   ELSE rpc' = "done" /\ rret' = [val |-> rall', err |-> Nil]
    /\ UNCHANGED <<pvars, mvars, cvars, evars, fvars, svc, rcall, rproj, rop>>

\* return g.s.WaitForCompletion(ctx, op)
RealWait ==
    /\ rpc = "wait"
    /\ rtrace' = Append(rtrace, [ev |-> "Wait", ctx |-> rcall.ctx, op |-> rop])
    /\ \E err \in WaitOutcomes(rcall.ctx) :
         /\ rret' = [val |-> Nil, err |-> err]
         /\ rreply' = Append(rreply, Reply("Wait", err, Nil, <<>>))
    /\ rpc' = "done"
    /\ UNCHANGED <<pvars, mvars, cvars, evars, fvars, svc, rcall, rproj, rall, rop>>

-----------------------------------------------------------------------------
(* Callers that share one mock adapter.  Each caller is a goroutine that  *)
(* makes one call of Get, List, Insert or Delete.  A call is a frame on    *)
(* the caller's stack; a hook that calls the mock again puts a frame on    *)
(* top of it.  The statements of a method are steps of their own, so that  *)
(* what m.Lock does for them is checked and not assumed.                   *)

Procs == { "c1", "c2" }

\* The object each caller inserts, the one a hook inserts and the one the
\* test has put into Objects beforehand.
ConcObj(who) == [ptr |-> who]

\* The key type of the service whose mock the callers share.
ConcKeyType == "zonal"

\* The calls a caller may make: Get, List and Delete where the test
\* prepares the mock, Insert there and of another key.
ConcCalls(p) ==
    { [op |-> "Get", key |-> k, obj |-> Nil, loc |-> Nil] : k \in ErrKeysOf(kt) }
        \cup { [op |-> "List", key |-> Nil, obj |-> Nil, loc |-> S("l1")] }
        \cup { [op |-> "Insert", key |-> k, obj |-> ConcObj(p), loc |-> Nil] : k \in KeysOf(kt) }
        \cup { [op |-> "Delete", key |-> k, obj |-> Nil, loc |-> Nil] : k \in ErrKeysOf(kt) }

\* What a hook, which is the caller's code, may do before it returns:
\* nothing, m.Lock.Lock() and m.Lock.Unlock(), or a call of another method
\* of m.
HookKinds == { "plain", "locks", "calls" }

\* The call a hook of method op makes when it calls the mock.
NestedCall(op) ==
    IF op \in { "Get", "List" }
    THEN [op |-> "Insert", obj |-> ConcObj("hook"), loc |-> Nil,
          key |-> CHOOSE k \in ErrKeysOf(kt) : TRUE]
    ELSE [op |-> "Get", obj |-> Nil, loc |-> Nil,
          key |-> CHOOSE k \in ErrKeysOf(kt) : TRUE]

\* How deep hooks may call into the mock.
MaxDepth == 2

\* The hook field of method op.
HookOf(op) == op \o "Hook"

\* The results the hook of method op may hand back.
HookResults(op) ==
    CASE op = "Get" -> HookObjResults
      [] op = "List" -> HookListResults
      [] OTHER -> HookErrResults

\* How many fields the test writes before the callers start.
MaxConcSetup == 1

\* A variant of Goto that takes m.Lock before it looks at the hook.
Goto_LockFirst(pc, hookSet, intercept, writes) ==
    CASE pc = "entry"  -> "lock"
      [] pc = "lock"   -> IF hookSet THEN "hook" ELSE "read"
      [] pc = "hook"   -> IF intercept THEN "unlock" ELSE "read"
      [] pc = "read"   -> IF writes THEN "write" ELSE "unlock"
      [] pc = "write"  -> "unlock"
      [] pc = "unlock" -> "done"

\* The order of the statements of a mock method: the hook if there is
\* one, m.Lock.Lock(), the checks, the write to Objects if the checks
\* passed, the deferred m.Lock.Unlock().
Goto(pc, hookSet, intercept, writes) ==
    CASE pc = "entry"  -> IF hookSet THEN "hook" ELSE "lock"
      [] pc = "hook"   -> IF intercept THEN "done" ELSE "lock"
      [] pc = "lock"   -> "read"
      [] pc = "read"   -> IF writes THEN "write" ELSE "unlock"
      [] pc = "write"  -> "unlock"
      [] pc = "unlock" -> "done"

\* The frame of a call that has just been entered.
NewFrame(c) ==
    [op |-> c.op, key |-> c.key, obj |-> c.obj, loc |-> c.loc,
     pc |-> Goto("entry", HookOf(c.op) \in Hooks, FALSE, FALSE),
     kind |-> "none", hook |-> Nil, ret |-> Nil,
     before |-> Objects, exp |-> {}]

Top(p) == stack[p][Len(stack[p])]

SetTop(p, f) == [stack EXCEPT ![p][Len(stack[p])] = f]

\* Who has locked m.Lock: the caller, the frame and whether it was the
\* method or its hook.
Holder(p, d, by) == [proc |-> p, depth |-> d, by |-> by]

\* A variant of LockFree for a Lock() that never waits.
LockFree_Always(l) == TRUE

\* sync.Mutex: Lock() goes on when the mutex is unlocked.
LockFree(l) == l = Nil

ConcInit ==
    /\ kt = ConcKeyType
    /\ NewMock
    /\ hist = EmptyMap
    /\ Lock = Nil
    /\ stack = [p \in Procs |-> <<>>]
    /\ seqStore = EmptyMap

\* No caller shares a mock.
ConcIdle ==
    /\ Lock = Nil
    /\ stack = [p \in Procs |-> <<>>]
    /\ seqStore = EmptyMap

\* The test puts an object into Objects before the callers start.
SetObject(key, obj) ==
    /\ Objects' = MapSet(Objects, key, obj)
    /\ seqStore' = MapSet(seqStore, key, obj)
    /\ UNCHANGED <<pvars, rvars, evars, fvars, kt, GetError, ListError, InsertError, DeleteError,
                   Hooks, call, hist, Lock, stack>>

\* The test prepares the mock; the callers have not started.
ConcSetup ==
    /\ \A p \in Procs : stack[p] = <<>>
    /\ Setups + Cardinality(DOMAIN Objects) < MaxConcSetup
    /\ \/ \E key \in ErrKeysOf(kt), e \in InjectedErrs :
            SetGetError(key, e) \/ SetInsertError(key, e) \/ SetDeleteError(key, e)
       \/ \E e \in InjectedErrs : SetListError(e)
       \/ \E op \in { "Get", "List", "Insert", "Delete" } : SetHook(HookOf(op))
       \/ \E key \in ErrKeysOf(kt) : SetObject(key, ConcObj("test"))

\* A caller enters a method: if m.<Op>Hook != nil.
ConcEnter(p) ==
    /\ stack[p] = <<>>
    /\ \E c \in ConcCalls(p) : stack' = [stack EXCEPT ![p] = << NewFrame(c) >>]
    /\ UNCHANGED <<pvars, mvars, rvars, evars, fvars, Lock, seqStore>>

\* m.<Op>Hook(m, ctx, ...) is called and does what it does.
ConcHook(p) ==
    /\ stack[p] # <<>>
    /\ Top(p).pc = "hook"
    /\ \E kind \in HookKinds :
         CASE kind = "plain" ->
                  stack' = SetTop(p, [Top(p) EXCEPT !.pc = "hookret", !.kind = kind])
           [] kind = "locks" ->
                  stack' = SetTop(p, [Top(p) EXCEPT !.pc = "hooklock", !.kind = kind])
           [] kind = "calls" ->
                  /\ Len(stack[p]) < MaxDepth
                  /\ stack' = [stack EXCEPT ![p] =
                        Append(SubSeq(stack[p], 1, Len(stack[p]) - 1),
                               [Top(p) EXCEPT !.pc = "hookcall", !.kind = kind])
                            \o << NewFrame(NestedCall(Top(p).op)) >>]
    /\ UNCHANGED <<pvars, mvars, rvars, evars, fvars, Lock, seqStore>>

\* The hook's m.Lock.Lock().
ConcHookLock(p) ==
    /\ stack[p] # <<>>
    /\ Top(p).pc = "hooklock"
    /\ LockFree(Lock)
    /\ Lock' = Holder(p, Len(stack[p]), "hook")
    /\ stack' = SetTop(p, [Top(p) EXCEPT !.pc = "hookunlock"])
    /\ UNCHANGED <<pvars, mvars, rvars, evars, fvars, seqStore>>

\* The hook's m.Lock.Unlock().
ConcHookUnlock(p) ==
    /\ stack[p] # <<>>
    /\ Top(p).pc = "hookunlock"
    /\ Lock' = Nil
    /\ stack' = SetTop(p, [Top(p) EXCEPT !.pc = "hookret"])
    /\ UNCHANGED <<pvars, mvars, rvars, evars, fvars, seqStore>>

\* The call the hook made returns to the hook.
ConcNestedReturn(p) ==
    /\ Len(stack[p]) > 1
    /\ Top(p).pc = "done"
    /\ stack' = [stack EXCEPT ![p] =
          Append(SubSeq(stack[p], 1, Len(stack[p]) - 2),
                 [stack[p][Len(stack[p]) - 1] EXCEPT !.pc = "hookret"])]
    /\ UNCHANGED <<pvars, mvars, rvars, evars, fvars, Lock, seqStore>>

\* if intercept, ... := m.<Op>Hook(...); intercept { return ... }
ConcHookReturn(p) ==
    /\ stack[p] # <<>>
    /\ Top(p).pc = "hookret"
    /\ \E h \in HookResults(Top(p).op) :
         stack' = SetTop(p, [Top(p) EXCEPT
                     !.hook = h,
                     !.ret = IF Intercepted(h) THEN [val |-> h.val, err |-> h.err] ELSE Nil,
                     !.pc = Goto("hook", TRUE, Intercepted(h), FALSE)])
    /\ UNCHANGED <<pvars, mvars, rvars, evars, fvars, Lock, seqStore>>

\* m.Lock.Lock()
ConcLock(p) ==
    /\ stack[p] # <<>>
    /\ Top(p).pc = "lock"
    /\ LockFree(Lock)
    /\ Lock' = Holder(p, Len(stack[p]), "op")
    /\ stack' = SetTop(p, [Top(p) EXCEPT
                  !.pc = Goto("lock", HookOf(Top(p).op) \in Hooks, FALSE, FALSE)])
    /\ UNCHANGED <<pvars, mvars, rvars, evars, fvars, seqStore>>

\* What the checks of method f.op find in the maps errs and objects:
\* the results they may lead to, each with the store a mock would have
\* after the whole method.
Checks(f, objects) ==
    CASE f.op = "Get" ->
             { [ret |-> GetDefault(objects, GetError, f.key), objects |-> objects] }
      [] f.op = "List" ->
             { [ret |-> r, objects |-> objects] :
                 r \in ListDefault(objects, ListError, kt, f.loc) }
      [] f.op = "Insert" ->
             LET r == InsertDefault(objects, InsertError, f.key, f.obj)
             IN  { [ret |-> [val |-> Nil, err |-> r.err], objects |-> r.objects] }
      [] f.op = "Delete" ->
             LET r == DeleteDefault(objects, DeleteError, f.key)
             IN  { [ret |-> [val |-> Nil, err |-> r.err], objects |-> r.objects] }

\* The checks between Lock() and the write: the error map, then Objects.
\* seqStore and exp follow a mock that runs the whole method here.
ConcRead(p) ==
    /\ stack[p] # <<>>
    /\ Top(p).pc = "read"
    /\ \E c \in Checks(Top(p), Objects) :
         stack' = SetTop(p, [Top(p) EXCEPT
                     !.ret = c.ret,
                     !.exp = { s.ret : s \in Checks(Top(p), seqStore) },
                     !.pc = Goto("read", FALSE, FALSE,
                                 Top(p).op \in { "Insert", "Delete" } /\ c.ret.err = Nil)])
    /\ seqStore' = (CHOOSE s \in Checks(Top(p), seqStore) : TRUE).objects
    /\ UNCHANGED <<pvars, mvars, rvars, evars, fvars, Lock>>

\* m.Objects[key] = obj, or delete(m.Objects, key).
ConcWrite(p) ==
    /\ stack[p] # <<>>
    /\ Top(p).pc = "write"
    /\ Objects' = IF Top(p).op = "Insert"
                  THEN MapSet(Objects, Top(p).key, Top(p).obj)
                  ELSE MapDelete(Objects, Top(p).key)
    /\ stack' = SetTop(p, [Top(p) EXCEPT !.pc = Goto("write", FALSE, FALSE, FALSE)])
    /\ UNCHANGED <<pvars, rvars, evars, fvars, kt, GetError, ListError, InsertError, DeleteError,
                   Hooks, call, hist, Lock, seqStore>>

\* The deferred m.Lock.Unlock().
ConcUnlock(p) ==
    /\ stack[p] # <<>>
    /\ Top(p).pc = "unlock"
    /\ Lock' = Nil
    /\ stack' = SetTop(p, [Top(p) EXCEPT !.pc = Goto("unlock", FALSE, FALSE, FALSE)])
    /\ UNCHANGED <<pvars, mvars, rvars, evars, fvars, seqStore>>

-----------------------------------------------------------------------------
(* The MockGCE that genStubs emits: one field per service, each holding    *)
(* the mock of that service, and one accessor per field.  The mocks are    *)
(* objects on the heap, so that two fields may or may not hold the same    *)
(* one.  The test reaches every mock through its accessor.                 *)

\* The fields of MockGCE, named after their services.
FacadeFields == { s.Service : s \in Services }

ServiceOf(f) == CHOOSE s \in Services : s.Service = f

\* What New<MockWrapType>() builds: empty maps, no list error, no hooks.
FreshMock ==
    [Objects |-> EmptyMap, GetError |-> EmptyMap, InsertError |-> EmptyMap,
     DeleteError |-> EmptyMap, ListError |-> Nil, Hooks |-> {}]

\* The pointer New<MockWrapType>() returns when it is called for field f.
Alloc(f) == [mock |-> f]

\* A variant of NewMockGCE that puts one and the same mock into every field.
NewMockGCE_Shared == [f \in FacadeFields |-> Alloc(CHOOSE g \in FacadeFields : TRUE)]

\* NewMockGCE(): <MockField>: New<MockWrapType>() for every service.
NewMockGCE == [f \in FacadeFields |-> Alloc(f)]

FacadeInit ==
    /\ facade = NewMockGCE
    /\ heap = [p \in { facade[f] : f \in FacadeFields } |-> FreshMock]
    /\ fgot = [f \in FacadeFields |-> {}]
    /\ fcall = NoCall

\* No MockGCE has been built.
FacadeIdle ==
    /\ facade = EmptyMap
    /\ heap = EmptyMap
    /\ fgot = EmptyMap
    /\ fcall = NoCall

\* func (mock *MockGCE) <WrapType>() <WrapType> { return mock.<MockField> }
Accessor(f) == facade[f]

\* The key the test uses with the mock of field f.
FacadeKey(f) == RealKeyOf(ServiceOf(f).kt)

FacadeCall(f, op, val, err) == [svc |-> f, op |-> op, val |-> val, err |-> err]

\* The accessor of field f has been called once more.
Got(f) == [fgot EXCEPT ![f] = @ \cup { Accessor(f) }]

\* mock.<WrapType>().Get(ctx, key); no hook is set.
FacadeGet(f) ==
    LET m == heap[Accessor(f)]
        r == GetDefault(m.Objects, m.GetError, FacadeKey(f))
    IN  /\ fcall' = FacadeCall(f, "Get", r.val, r.err)
        /\ fgot' = Got(f)
        /\ UNCHANGED <<pvars, mvars, rvars, cvars, evars, facade, heap>>

\* mock.<WrapType>().List(ctx, ...)
FacadeList(f) ==
    LET m == heap[Accessor(f)]
    IN  /\ \E r \in ListDefault(m.Objects, m.ListError, ServiceOf(f).kt, S("l1")) :
             fcall' = FacadeCall(f, "List", r.val, r.err)
        /\ fgot' = Got(f)
        /\ UNCHANGED <<pvars, mvars, rvars, cvars, evars, facade, heap>>

\* mock.<WrapType>().Insert(ctx, key, obj)
FacadeInsert(f, obj) ==
    LET p == Accessor(f)
        r == InsertDefault(heap[p].Objects, heap[p].InsertError, FacadeKey(f), obj)
    IN  /\ ServiceOf(f).GenerateMutations
        /\ heap' = [heap EXCEPT ![p].Objects = r.objects]
        /\ fcall' = FacadeCall(f, "Insert", Nil, r.err)
        /\ fgot' = Got(f)
        /\ UNCHANGED <<pvars, mvars, rvars, cvars, evars, facade>>

\* mock.<WrapType>().Delete(ctx, key)
FacadeDelete(f) ==
    LET p == Accessor(f)
        r == DeleteDefault(heap[p].Objects, heap[p].DeleteError, FacadeKey(f))
    IN  /\ ServiceOf(f).GenerateMutations
        /\ heap' = [heap EXCEPT ![p].Objects = r.objects]
        /\ fcall' = FacadeCall(f, "Delete", Nil, r.err)
        /\ fgot' = Got(f)
        /\ UNCHANGED <<pvars, mvars, rvars, cvars, evars, facade>>

\* The test registers an error for Get in the mock of field f.
FacadeSetGetError(f, e) ==
    LET p == Accessor(f)
    IN  /\ FacadeKey(f) \notin DOMAIN heap[p].GetError
        /\ heap' = [heap EXCEPT ![p].GetError = MapSet(@, FacadeKey(f), e)]
        /\ fcall' = FacadeCall(f, "SetGetError", Nil, Nil)
        /\ fgot' = Got(f)
        /\ UNCHANGED <<pvars, mvars, rvars, cvars, evars, facade>>

-----------------------------------------------------------------------------
(* The specifications.                                                     *)

InitParse == ParseInit /\ MockIdle /\ RealIdle /\ ConcIdle /\ EqualIdle /\ FacadeIdle

NextParse ==
    \/ Parse
    \/ ParseBare
    \/ EqualCall

InitEqual == ParseIdle /\ MockIdle /\ RealIdle /\ ConcIdle /\ EqualInit /\ FacadeIdle

NextEqual == EqualCall

SpecEqual == InitEqual /\ [][NextEqual]_vars

SpecParse == InitParse /\ [][NextParse]_vars

InitReal == ParseIdle /\ MockIdle /\ RealInit /\ ConcIdle /\ EqualIdle /\ FacadeIdle

NextReal ==
    \/ \E method \in { "Get", "List", "Insert", "Delete" } \cup CustomVerbs,
          obj \in RealObjs, loc \in Locations, ctx \in Contexts :
            RealBegin(method, obj, loc, ctx)
    \/ RealAccept
    \/ RealProjectID
    \/ RealDo
    \/ RealPage
    \/ RealWait

SpecReal == InitReal /\ [][NextReal]_vars

InitMock == ParseIdle /\ MockInit /\ RealIdle /\ ConcIdle /\ EqualIdle /\ FacadeIdle

NextMock ==
    \/ \E key \in KeysOf(kt) : MockGet(key)
    \/ \E loc \in Locations : MockList(loc)
    \/ \E key \in KeysOf(kt), obj \in Objs : MockInsert(key, obj)
    \/ \E key \in KeysOf(kt) : MockDelete(key)
    \/ \E verb \in CustomVerbs, key \in KeysOf(kt) : MockCustom(verb, key)
    \/ \E key \in ErrKeysOf(kt), e \in InjectedErrs : SetGetError(key, e)
    \/ \E key \in ErrKeysOf(kt), e \in InjectedErrs : SetInsertError(key, e)
    \/ \E key \in ErrKeysOf(kt), e \in InjectedErrs : SetDeleteError(key, e)
    \/ \E e \in InjectedErrs : SetListError(e)
    \/ \E h \in HookFields : SetHook(h)

SpecMock == InitMock /\ [][NextMock]_vars

InitConc == ParseIdle /\ RealIdle /\ ConcInit /\ EqualIdle /\ FacadeIdle

NextConc ==
    \/ ConcSetup
    \/ \E p \in Procs : ConcEnter(p)
    \/ \E p \in Procs : ConcHook(p)
    \/ \E p \in Procs : ConcHookLock(p)
    \/ \E p \in Procs : ConcHookUnlock(p)
    \/ \E p \in Procs : ConcNestedReturn(p)
    \/ \E p \in Procs : ConcHookReturn(p)
    \/ \E p \in Procs : ConcLock(p)
    \/ \E p \in Procs : ConcRead(p)
    \/ \E p \in Procs : ConcWrite(p)
    \/ \E p \in Procs : ConcUnlock(p)

SpecConc == InitConc /\ [][NextConc]_vars

InitFacade == ParseIdle /\ MockIdle /\ RealIdle /\ ConcIdle /\ EqualIdle /\ FacadeInit

NextFacade ==
    \/ \E f \in FacadeFields : FacadeGet(f)
    \/ \E f \in FacadeFields : FacadeList(f)
    \/ \E f \in FacadeFields, obj \in Objs : FacadeInsert(f, obj)
    \/ \E f \in FacadeFields : FacadeDelete(f)
    \/ \E f \in FacadeFields, e \in InjectedErrs : FacadeSetGetError(f, e)

SpecFacade == InitFacade /\ [][NextFacade]_vars

-----------------------------------------------------------------------------
(* Properties of ParseResourceURL.                                         *)

\* The six accepted shapes, as lists of segments.
IsShape(segs) ==
    /\ Len(segs) >= 2
    /\ segs[1] = S("projects")
    /\ \/ Len(segs) = 2
       \/ Len(segs) = 4 /\ segs[3] \in { S("regions"), S("zones") }
       \/ Len(segs) = 5 /\ segs[3] = S("global")
       \/ Len(segs) = 6 /\ segs[3] \in { S("regions"), S("zones") }

ShapeLists == { segs \in SegLists : IsShape(segs) }

\* The ResourceID each shape stands for.
ExpectedID(segs) ==
    CASE Len(segs) = 2 -> ResourceID(segs[2], S("projects"), Nil)
      [] Len(segs) = 4 -> ResourceID(segs[2], segs[3], GlobalKey(segs[4]))
      [] Len(segs) = 5 -> ResourceID(segs[2], segs[4], GlobalKey(segs[5]))
      [] Len(segs) = 6 /\ segs[3] = S("regions") ->
             ResourceID(segs[2], segs[5], RegionalKey(segs[6], segs[4]))
      [] Len(segs) = 6 /\ segs[3] = S("zones") ->
             ResourceID(segs[2], segs[5], ZonalKey(segs[6], segs[4]))

\* Every string that is a shape with at most one known prefix in front.
AcceptedURLs == { pre \o Join(segs) : pre \in KnownOrNone, segs \in ShapeLists }

\* C1: an input that is one of the six shapes, with or without one known
\* prefix in front, parses without error to the ResourceID of its shape,
\* and the prefix makes no difference to the result.
C1_ValidParses ==
    ppc = "done" =>
        \A pre \in KnownOrNone, segs \in ShapeLists :
            url = pre \o Join(segs) =>
                pres = [ret |-> ExpectedID(segs), err |-> Nil]

\* A regional resource behind the alpha prefix has been parsed.
C1_Witness ==
    /\ ppc = "done"
    /\ input.pre = alphaPrefix
    /\ input.segs = << S("projects"), S("p"), S("regions"), S("r"), S("t"), S("n") >>
    /\ pres.ret = ResourceID(S("p"), S("t"), RegionalKey(S("n"), S("r")))

\* C2: an input that is none of the six shapes is refused with an
\* InvalidFormat error naming the input, and no ResourceID comes with it.
C2_InvalidRejected ==
    (ppc = "done" /\ url \notin AcceptedURLs) =>
        /\ pres.ret = Nil
        /\ pres.err = [kind |-> "InvalidFormat", url |-> url]

\* A zonal path with one segment too many has been refused.
C2_Witness ==
    /\ ppc = "done"
    /\ input.pre = <<>>
    /\ input.segs = << S("projects"), S("p"), S("zones"), S("r"), S("t"), S("n"), S("x") >>
    /\ pres.ret = Nil
    /\ pres.err # Nil

-----------------------------------------------------------------------------
(* Properties of the mock adapter.                                         *)

\* The call c was answered by its hook.
Handled(c) == c.hook # Nil /\ c.hook.intercept

\* The call c is operation op and ran the default logic under the lock.
DefaultCall(c, op) == c.op = op /\ ~Handled(c)

\* C3: a Get of a key whose last successful default Insert or Delete was
\* Insert(k, obj), with no error registered for the key and no hook
\* answering, returns obj itself and no error.
C3_GetReturnsInserted ==
    ( /\ DefaultCall(call, "Get")
      /\ call.key \notin DOMAIN GetError
      /\ hist[call.key] \in Objs )
    => /\ call.val = hist[call.key]
       /\ call.err = Nil

\* On a mock without hooks or errors, o2 was inserted under a key and a
\* later Get of the key returned it.
C3_Witness ==
    /\ call.op = "Get"
    /\ Hooks = {}
    /\ Setups = 0
    /\ hist[call.key] = [ptr |-> "o2"]
    /\ call.val = [ptr |-> "o2"]
    /\ Cardinality(DOMAIN Objects) = 2

\* C4: an Insert on a key that is in the store, with no Insert error
\* registered for the key and no hook answering, returns the 409 error and
\* leaves the whole store as it was, the key still holding the object of
\* the first successful Insert.
C4_SecondInsertRefused ==
    [][ ( /\ DefaultCall(call', "Insert")
          /\ call'.key \notin DOMAIN InsertError
          /\ call'.key \in DOMAIN Objects )
        => /\ call'.err = ExistsError(call'.key)
           /\ Objects' = Objects
           /\ Objects'[call'.key] = hist[call'.key]
           /\ hist' = hist ]_vars

\* A second Insert with another object was refused and the first object
\* is still the one stored.
C4_Witness ==
    /\ call.op = "Insert"
    /\ Hooks = {}
    /\ call.err = ExistsError(call.key)
    /\ call.obj = [ptr |-> "o2"]
    /\ Objects[call.key] = [ptr |-> "o1"]

\* C5: with no hook answering and no error registered for the key, a Get
\* of a key whose last successful default Insert or Delete was a Delete
\* returns the 404 error, and a Delete of a key that is not in the store
\* returns the 404 error and removes nothing.
C5_DeletedIsNotFound ==
    [][ /\ ( /\ DefaultCall(call', "Get")
             /\ call'.key \notin DOMAIN GetError
             /\ hist[call'.key] = Deleted )
           => /\ call'.val = Nil
              /\ call'.err = NotFoundError(call'.key)
        /\ ( /\ DefaultCall(call', "Delete")
             /\ call'.key \notin DOMAIN DeleteError
             /\ call'.key \notin DOMAIN Objects )
           => /\ call'.err = NotFoundError(call'.key)
              /\ Objects' = Objects
              /\ hist' = hist ]_vars

\* A key was inserted and deleted, and a later Get of it returned the 404
\* error while the other key was still stored.
C5_Witness ==
    /\ call.op = "Get"
    /\ Hooks = {}
    /\ hist[call.key] = Deleted
    /\ call.err = NotFoundError(call.key)
    /\ Objects # EmptyMap

\* The number of places of the sequence s that hold x.
Count(s, x) == Cardinality({ i \in DOMAIN s : s[i] = x })

\* The key k lies in the location a List of a service of type t asks for.
InLocation(k, t, loc) ==
    CASE t = "global" -> TRUE
      [] t = "regional" -> k.Region = loc
      [] t = "zonal" -> k.Zone = loc

\* C6: a List that no hook answers returns the registered list error and
\* no objects when there is one; else it returns, each once, the stored
\* objects whose key lies in the region or zone asked for, and for a
\* global service every stored object.
C6_ListFilters ==
    DefaultCall(call, "List") =>
        IF ListError # Nil
        THEN call.err = ListError /\ call.val = <<>>
        ELSE LET keys == { k \in DOMAIN Objects : InLocation(k, kt, call.loc) }
             IN  /\ call.err = Nil
                 /\ Len(call.val) = Cardinality(keys)
                 /\ \A o \in Objs \cup { HookObj } :
                        Count(call.val, o) = Cardinality({ k \in keys : Objects[k] = o })

\* A zonal List returned one of two stored objects.
C6_Witness ==
    /\ call.op = "List"
    /\ kt = "zonal"
    /\ Hooks = {}
    /\ ListError = Nil
    /\ Cardinality(DOMAIN Objects) = 2
    /\ Len(call.val) = 1

\* The error map that operation op consults.
ErrorMapOf(op) ==
    CASE op = "Get" -> GetError
      [] op = "Insert" -> InsertError
      [] op = "Delete" -> DeleteError

\* C7: a Get, Insert or Delete that no hook answers, on a key with an
\* error registered for that operation, returns that error and leaves the
\* store as it was, whether the key is stored or not; on a key with no
\* error registered the store alone decides the result.
C7_InjectedErrorReturned ==
    [][ \A op \in { "Get", "Insert", "Delete" } :
          DefaultCall(call', op) =>
            LET k == call'.key
                present == k \in DOMAIN Objects
            IN  IF k \in DOMAIN ErrorMapOf(op)
                THEN /\ call'.err = ErrorMapOf(op)[k]
                     /\ call'.val = Nil
                     /\ Objects' = Objects
                ELSE CASE op = "Get" ->
                            /\ Objects' = Objects
                            /\ IF present
                               THEN call'.val = Objects[k] /\ call'.err = Nil
                               ELSE call'.val = Nil /\ call'.err = NotFoundError(k)
                       [] op = "Insert" ->
                            IF present
                            THEN call'.err = ExistsError(k) /\ Objects' = Objects
                            ELSE call'.err = Nil /\ Objects' = MapSet(Objects, k, call'.obj)
                       [] op = "Delete" ->
                            IF present
                            THEN call'.err = Nil /\ Objects' = MapDelete(Objects, k)
                            ELSE call'.err = NotFoundError(k) /\ Objects' = Objects ]_vars

\* A Get of a stored key returned the error registered for the key.
C7_Witness ==
    /\ call.op = "Get"
    /\ Hooks = {}
    /\ call.key \in DOMAIN GetError
    /\ call.key \in DOMAIN Objects
    /\ call.err = GetError[call.key]
    /\ call.val = Nil

\* C8: a Get, List, Insert or Delete whose hook says it handled the call
\* returns what the hook returned, and the store stays as it was,
\* whatever the store and the error maps hold.
C8_HookShortCircuits ==
    [][ ( /\ call'.op \in { "Get", "List", "Insert", "Delete" }
          /\ Handled(call') )
        => /\ call'.val = call'.hook.val
           /\ call'.err = call'.hook.err
           /\ Objects' = Objects
           /\ hist' = hist ]_vars

\* A hook answered a Get with an object for a key that is not stored and
\* has an error registered.
C8_Witness ==
    /\ call.op = "Get"
    /\ Handled(call)
    /\ call.key \notin DOMAIN Objects
    /\ call.key \in DOMAIN GetError
    /\ call.val = HookObj
    /\ call.err = Nil

\* C9: a custom method called while its hook is nil returns the error
\* "<Hook> must be set", whether it returns an Operation result or a value.
C9_CustomNeedsHook ==
    (call.op \in CustomVerbs /\ call.hook = Nil)
        => call.err = MustBeSetError(MockHookName(call.op))

-----------------------------------------------------------------------------
(* Properties of the real adapter.                                         *)

\* C10: in every call of a real adapter method, each request of the
\* transport comes after a RateLimiter.Accept with the RateLimitKey of the
\* method name, the service's API version and its object type, and after
\* a ProjectRouter.ProjectID for the service's version and name whose
\* answer is the project the request is made for.
C10_AcceptBeforeCall ==
    \A i \in DOMAIN rtrace :
        rtrace[i].ev = "Do" =>
            /\ \E j \in 1..(i - 1) :
                 /\ rtrace[j].ev = "Accept"
                 /\ rtrace[j].rk = [Operation |-> rcall.method,
                                    Version |-> svc.Version,
                                    Target |-> svc.Object]
            /\ \E j \in 1..(i - 1) :
                 /\ rtrace[j].ev = "ProjectID"
                 /\ rtrace[j].version = svc.Version
                 /\ rtrace[j].service = svc.Service
                 /\ rtrace[i].args[1] = rtrace[j].res
            /\ rtrace[i].method = rcall.method
            /\ rtrace[i].version = svc.Version
            /\ rtrace[i].service = svc.Service

\* An Operation-returning custom method has run to its end: Accept,
\* ProjectID, the request, WaitForCompletion.
C10_Witness ==
    /\ rpc = "done"
    /\ rcall.method \in OperationVerbs
    /\ Len(rtrace) = 4
    /\ rtrace[1].ev = "Accept"
    /\ rtrace[2].ev = "ProjectID"
    /\ rtrace[3].ev = "Do"
    /\ rtrace[4].ev = "Wait"

\* The positions in the trace of the current call of the events ev.
EventsOf(ev) == { i \in DOMAIN rtrace : rtrace[i].ev = ev }

\* The positions of the answers given by from ("Do" or "Wait").
RepliesOf(from) == { i \in DOMAIN rreply : rreply[i].from = from }

\* C11: when RateLimiter.Accept fails with Throttled during an operation of
\* the real adapter, the operation returns that Throttled failure to its
\* caller.
C11_ThrottledReturned ==
    (rpc = "done" /\ \E i \in EventsOf("Accept") : rtrace[i].res = ThrottledErr)
        => rret.err = ThrottledErr

\* The methods of the real adapter whose transport call returns an Operation.
WaitingMethods == { "Insert", "Delete" } \cup OperationVerbs

\* C12: in Insert, Delete and every Operation-returning custom method of the
\* real adapter, a failed transport call returns its error without any
\* WaitForCompletion; a successful one hands the Operation it returned to
\* WaitForCompletion exactly once, the method returns only after that, and
\* what it returns is what WaitForCompletion answered.
C12_WaiterDiscipline ==
    (rpc # "idle" /\ rcall.method \in WaitingMethods) =>
        /\ Cardinality(EventsOf("Wait")) <= 1
        /\ \A w \in EventsOf("Wait") :
             \E i \in RepliesOf("Do") :
                /\ rreply[i].err = Nil
                /\ rtrace[w].op = rreply[i].op
        /\ \A i \in RepliesOf("Do") :
             rreply[i].err # Nil => EventsOf("Wait") = {}
        /\ rpc = "done" =>
             \/ \E i \in RepliesOf("Do") :
                   /\ rreply[i].err # Nil
                   /\ rret = [val |-> Nil, err |-> rreply[i].err]
                   /\ EventsOf("Wait") = {}
             \/ \E i \in RepliesOf("Do"), j \in RepliesOf("Wait") :
                   /\ rreply[i].err = Nil
                   /\ Cardinality(EventsOf("Wait")) = 1
                   /\ rret = [val |-> Nil, err |-> rreply[j].err]

\* Delete has returned the failure WaitForCompletion reported for the
\* Operation the transport had handed back.
C12_Witness ==
    /\ rpc = "done"
    /\ rcall.method = "Delete"
    /\ Len(rreply) = 2
    /\ rreply[1] = Reply("Do", Nil, [operation |-> "op-2"], <<>>)
    /\ rreply[2].from = "Wait"
    /\ rreply[2].err = OperationFailedErr
    /\ rtrace[Len(rtrace)].ev = "Wait"
    /\ rtrace[Len(rtrace)].op = [operation |-> "op-2"]
    /\ rret.err = OperationFailedErr

\* The items of the pages answered in r, in the order of the pages.
RECURSIVE ItemsInOrder(_)
ItemsInOrder(r) ==
    IF r = <<>> THEN <<>> ELSE r[1].items \o ItemsInOrder(Tail(r))

\* The positions of the page fetches that failed.
FailedPages == { i \in DOMAIN rreply : rreply[i].err # Nil }

\* C13: List of the real adapter returns the items of all pages, in page
\* order, when every page fetch succeeds; when a page fetch fails it
\* returns the first such error and no items.
C13_ListConcatenates ==
    (rpc = "done" /\ rcall.method = "List") =>
        IF FailedPages = {}
        THEN rret = [val |-> ItemsInOrder(rreply), err |-> Nil]
        ELSE LET f == CHOOSE i \in FailedPages : \A j \in FailedPages : i <= j
             IN  rret = [val |-> <<>>, err |-> rreply[f].err]

\* List has returned the items of two pages, one after the other.
C13_Witness ==
    /\ rpc = "done"
    /\ rcall.method = "List"
    /\ Len(rreply) = 2
    /\ rreply[1].items = <<"i2", "i3">>
    /\ rreply[2].items = <<"i1">>
    /\ rret = [val |-> <<"i2", "i3", "i1">>, err |-> Nil]

\* C19: the object Insert of the real adapter hands to the transport is the
\* caller's with Name set to key.Name, whatever Name the caller had set, and
\* the region or zone argument is the key's.
C19_InsertNameFromKey ==
    (rpc # "idle" /\ rcall.method = "Insert") =>
        \A i \in EventsOf("Do") :
            LET a == rtrace[i].args
            IN  /\ a[Len(a)].Name = rcall.key.Name
                /\ a[Len(a)].ptr = rcall.obj.ptr
                /\ svc.kt = "global" => Len(a) = 2
                /\ svc.kt = "regional" => Len(a) = 3 /\ a[2] = rcall.key.Region
                /\ svc.kt = "zonal" => Len(a) = 3 /\ a[2] = rcall.key.Zone

\* Insert of a zonal service was called with an object named otherwise
\* than the key and has issued its request.
C19_Witness ==
    /\ rpc # "idle"
    /\ rcall.method = "Insert"
    /\ svc.kt = "zonal"
    /\ rcall.obj.Name = S("other")
    /\ rcall.key.Name = S("n1")
    /\ \E i \in EventsOf("Do") : rtrace[i].args[3].Name = S("n1")

\* C20: a method of the real adapter issues its transport call at most once
\* (List: each page at most once); a failed call is the last thing the
\* method does, and its error is what the method returns.
C20_NoRetry ==
    /\ (rpc # "idle" /\ rcall.method # "List") => Cardinality(EventsOf("Do")) <= 1
    /\ \A i, j \in EventsOf("Do") : i # j => rtrace[i].page # rtrace[j].page
    /\ \A i \in RepliesOf("Do") :
         rreply[i].err # Nil =>
            /\ i = Len(rreply)
            /\ rtrace[Len(rtrace)].ev = "Do"
            /\ rpc = "done"
            /\ rret.err = rreply[i].err

\* Get has returned the transport's error after a single request.
C20_Witness ==
    /\ rpc = "done"
    /\ rcall.method = "Get"
    /\ rcall.ctx = "live"
    /\ Cardinality(EventsOf("Do")) = 1
    /\ rreply = << Reply("Do", TransportErr, Nil, <<>>) >>
    /\ rret = [val |-> Nil, err |-> TransportErr]

-----------------------------------------------------------------------------
(* Claims about prefixes and ResourceID.Equal.                             *)

\* The three prefixes of utils.go, as a set.
KnownPrefixes == { gaPrefix, alphaPrefix, betaPrefix }

\* C15: for a path of an accepted shape and a known prefix, the ResourceID
\* parsed from the prefixed path and the one parsed from the bare path are
\* Equal, whichever of the two is the receiver.
C15_PrefixedEqualsBare ==
    (ppc = "bare" /\ input.pre \in KnownPrefixes /\ IsShape(input.segs)) =>
        /\ eqa # Nil
        /\ eqb # Nil
        /\ epc = "done" => (eres.ab /\ eres.ba)

\* The zonal resource parsed behind the beta prefix has been compared with
\* the one parsed from the bare path.
C15_Witness ==
    /\ ppc = "bare"
    /\ epc = "done"
    /\ input.pre = betaPrefix
    /\ input.segs = << S("projects"), S("p"), S("zones"), S("r"), S("t"), S("n") >>
    /\ eqa.Key = ZonalKey(S("n"), S("r"))
    /\ eres.ab
    /\ eres.ba

\* s begins with x, token by token.
StartsWith(s, x) == Len(s) >= Len(x) /\ \A i \in 1..Len(x) : s[i] = x[i]

\* The parse was refused with InvalidFormat.
Rejected == pres = [ret |-> Nil, err |-> [kind |-> "InvalidFormat", url |-> url]]

\* C17: only one of the three complete known prefixes is stripped, and one
\* at most: an input behind another host or version prefix, an input with
\* two known prefixes in a row and an input that is a known prefix and
\* nothing else are all refused with InvalidFormat.
C17_OnlyKnownPrefixStripped ==
    ppc = "done" =>
        /\ (StartsWith(url, <<"https:">>) /\ \A x \in KnownPrefixes : ~StartsWith(url, x))
               => Rejected
        /\ (\E x, y \in KnownPrefixes : StartsWith(url, x \o y)) => Rejected
        /\ url \in KnownPrefixes => Rejected

\* A regional resource behind the gamma prefix has been refused.
C17_Witness ==
    /\ ppc = "done"
    /\ input.pre = HostPrefix("gamma")
    /\ input.segs = << S("projects"), S("p"), S("regions"), S("r"), S("t"), S("n") >>
    /\ Rejected

\* C18: a.Equal(b) is true exactly when the ProjectIDs are the same, the
\* Resources are the same and the Keys are both nil or both there with the
\* same name, region and zone; with one Key nil and the other not it is
\* false; a.Equal(a) is true and a.Equal(b) = b.Equal(a).
C18_EqualIffSameFields ==
    epc = "done" =>
        /\ eres.ab <=>
             /\ eqa.ProjectID = eqb.ProjectID
             /\ eqa.Resource = eqb.Resource
             /\ \/ eqa.Key = Nil /\ eqb.Key = Nil
                \/ /\ eqa.Key # Nil
                   /\ eqb.Key # Nil
                   /\ eqa.Key.Name = eqb.Key.Name
                   /\ eqa.Key.Region = eqb.Key.Region
                   /\ eqa.Key.Zone = eqb.Key.Zone
        /\ ((eqa.Key = Nil) # (eqb.Key = Nil)) => ~eres.ab
        /\ eres.aa
        /\ eres.ab = eres.ba

\* Two ResourceIDs of the same project and resource, one without a Key and
\* one with, have been found different.
C18_Witness ==
    /\ epc = "done"
    /\ eqa = ResourceID(S("p"), S("disks"), Nil)
    /\ eqb = ResourceID(S("p"), S("disks"), GlobalKey(S("n1")))
    /\ ~eres.ab
    /\ ~eres.ba
    /\ eres.aa

-----------------------------------------------------------------------------
(* Claims about callers that share one mock adapter.                       *)

\* The caller's one call has returned.
Finished(p) == Len(stack[p]) = 1 /\ stack[p][1].pc = "done"

\* Both callers have called op with the same key and both calls have
\* returned.
BothDid(op) ==
    /\ \A p \in Procs : Finished(p) /\ stack[p][1].op = op
    /\ \A p, q \in Procs : stack[p][1].key = stack[q][1].key

\* The errors the two calls returned.
BothErrs == { stack[p][1].ret.err : p \in Procs }

\* C14: with no hook registered, the calls of Get, List, Insert and Delete
\* that callers make at the same time return what a mock returns that runs
\* them one after the other in the order in which they took m.Lock, and
\* leave the store it leaves; two Inserts of a key that is absent give
\* one success and one "exists" error, two Deletes of a key that is
\* present give one success and one "not found" error.
C14_CallsAreAtomic ==
    Hooks = {} =>
        /\ \A p \in Procs :
             Finished(p) => stack[p][1].ret \in stack[p][1].exp
        /\ Lock = Nil => Objects = seqStore
        /\ (/\ BothDid("Insert")
            /\ \A p \in Procs :
                 /\ stack[p][1].key \notin DOMAIN stack[p][1].before
                 /\ stack[p][1].key \notin DOMAIN InsertError)
               => /\ BothErrs = { Nil, ExistsError(stack["c1"][1].key) }
                  /\ stack["c1"][1].ret.err # stack["c2"][1].ret.err
        /\ (/\ BothDid("Delete")
            /\ \A p \in Procs :
                 /\ stack[p][1].key \in DOMAIN stack[p][1].before
                 /\ stack[p][1].key \notin DOMAIN DeleteError)
               => /\ BothErrs = { Nil, NotFoundError(stack["c1"][1].key) }
                  /\ stack["c1"][1].ret.err # stack["c2"][1].ret.err

\* Both callers entered Insert of the same key while it was absent: the
\* second caller's object is stored and the first caller was told that
\* the key exists.
C14_Witness ==
    /\ Hooks = {}
    /\ BothDid("Insert")
    /\ \A p \in Procs : stack[p][1].key \notin DOMAIN stack[p][1].before
    /\ stack["c1"][1].ret.err = ExistsError(stack["c1"][1].key)
    /\ stack["c2"][1].ret.err = Nil
    /\ Objects[stack["c1"][1].key] = ConcObj("c2")
    /\ Lock = Nil

\* The statements of a method that belong to the call of its hook.
HookPcs == { "hook", "hooklock", "hookunlock", "hookcall", "hookret" }

\* Frame d of caller p took m.Lock in the method itself and has it still.
HoldsLock(p, d) == Lock # Nil /\ Lock = Holder(p, d, "op")

\* The caller waits in a Lock() for a mutex that is locked.
Blocked(p) ==
    /\ stack[p] # <<>>
    /\ Top(p).pc \in { "lock", "hooklock" }
    /\ Lock # Nil

\* Every caller has returned or waits for m.Lock, and one of them waits.
Deadlocked ==
    /\ \A p \in Procs : Finished(p) \/ Blocked(p)
    /\ \E p \in Procs : Blocked(p)

\* C16: the hook of Get, List, Insert and Delete runs before the method
\* takes m.Lock and while the method does not hold it; the method takes
\* m.Lock only when there is no hook or the hook has declined.  A hook that
\* locks m.Lock or calls another method of the mock never brings the
\* callers to a deadlock.
C16_HookOutsideLock ==
    /\ \A p \in Procs :
         \A d \in DOMAIN stack[p] :
            /\ stack[p][d].pc \in HookPcs => ~HoldsLock(p, d)
            /\ HoldsLock(p, d) =>
                  \/ HookOf(stack[p][d].op) \notin Hooks
                  \/ stack[p][d].hook # Nil /\ ~stack[p][d].hook.intercept
    /\ ~Deadlocked

\* An InsertHook that locked and unlocked m.Lock has declined, and Insert
\* has stored the object.
C16_Witness ==
    /\ Finished("c1")
    /\ stack["c1"][1].op = "Insert"
    /\ stack["c1"][1].kind = "locks"
    /\ stack["c1"][1].hook # Nil
    /\ ~stack["c1"][1].hook.intercept
    /\ stack["c1"][1].ret = [val |-> Nil, err |-> Nil]
    /\ Objects[stack["c1"][1].key] = ConcObj("c1")

-----------------------------------------------------------------------------
(* Claims about cancellation, declining hooks, the frame of the mock and   *)
(* the parser's checks.                                                    *)

Declined(c) == c.hook # Nil /\ ~c.hook.intercept

\* C22: a Get, List, Insert or Delete whose hook declines returns what the
\* same call returns on a mock with the same store and errors and no hook,
\* and changes the store as that call does; what the hook handed back is
\* dropped.
C22_DeclinedHookIsDefault ==
    [][ (call'.op \in { "Get", "List", "Insert", "Delete" } /\ Declined(call')) =>
          LET c == call'
              got == [val |-> c.val, err |-> c.err]
          IN  CASE c.op = "Get" ->
                       /\ got = GetDefault(Objects, GetError, c.key)
                       /\ Objects' = Objects
                [] c.op = "List" ->
                       /\ got \in ListDefault(Objects, ListError, kt, c.loc)
                       /\ Objects' = Objects
                [] c.op = "Insert" ->
                       /\ got = [val |-> Nil,
                                 err |-> InsertDefault(Objects, InsertError, c.key, c.obj).err]
                       /\ Objects' = InsertDefault(Objects, InsertError, c.key, c.obj).objects
                [] c.op = "Delete" ->
                       /\ got = [val |-> Nil,
                                 err |-> DeleteDefault(Objects, DeleteError, c.key).err]
                       /\ Objects' = DeleteDefault(Objects, DeleteError, c.key).objects ]_vars

\* An InsertHook declined with an error of its own, and Insert stored the
\* object and returned no error.
C22_Witness ==
    /\ call.op = "Insert"
    /\ Declined(call)
    /\ call.hook.err = HookErr
    /\ call.err = Nil
    /\ call.key \in DOMAIN Objects
    /\ Objects[call.key] = call.obj
    /\ hist[call.key] = call.obj

\* The mock the field f of the MockGCE holds.
MockOf(f) == heap[facade[f]]

\* No two fields of the MockGCE hold the same mock.
OneMockEach ==
    /\ DOMAIN facade = FacadeFields
    /\ \A f, g \in FacadeFields : f # g => facade[f] # facade[g]

\* C23: a MockGCE holds one mock of its own per service; before any call
\* every mock has an empty store, empty error maps for Get, Insert and
\* Delete, no list error and no hooks; an accessor returns the same mock
\* every time; a call on the mock of one service leaves the store and the
\* errors of the mocks of all other services as they were.
C23_MocksAreSeparate ==
    [][ /\ OneMockEach
        /\ OneMockEach'
        /\ fcall = NoCall =>
             \A f \in FacadeFields :
                /\ MockOf(f).Objects = << >>
                /\ MockOf(f).GetError = << >>
                /\ MockOf(f).InsertError = << >>
                /\ MockOf(f).DeleteError = << >>
                /\ MockOf(f).ListError = Nil
                /\ MockOf(f).Hooks = {}
        /\ \A f \in FacadeFields : Cardinality(fgot'[f]) <= 1
        /\ \A f \in FacadeFields : f # fcall'.svc => MockOf(f)' = MockOf(f) ]_vars

\* An Insert through the accessor of Instances has stored its object,
\* while the mock of Addresses holds nothing but the error registered
\* there and the mock of Firewalls holds another object.
C23_Witness ==
    /\ fcall # NoCall
    /\ fcall.svc = "Instances"
    /\ fcall.op = "Insert"
    /\ fcall.err = Nil
    /\ MockOf("Instances").Objects = MapSet(EmptyMap, FacadeKey("Instances"), [ptr |-> "o1"])
    /\ MockOf("Addresses").Objects = EmptyMap
    /\ DOMAIN MockOf("Addresses").GetError = { FacadeKey("Addresses") }
    /\ MockOf("Firewalls").Objects = MapSet(EmptyMap, FacadeKey("Firewalls"), [ptr |-> "o2"])
    /\ fgot["Instances"] = { facade["Instances"] }

\* The store holds for every key but k what it held before the step.
OnlyKeyChanged(k) ==
    /\ DOMAIN Objects' \ {k} = DOMAIN Objects \ {k}
    /\ \A j \in DOMAIN Objects \ {k} : Objects'[j] = Objects[j]

\* C24: the default logic of the mock changes nothing but what it is for:
\* Get and List leave the store as it was; an Insert or Delete that
\* returns an error leaves the store as it was; an Insert that succeeds
\* adds the entry of its key and a Delete that succeeds removes the entry
\* of its key, the other entries staying as they were; no method of the
\* mock changes the error maps, the list error or the hooks.
C24_DefaultLogicFrame ==
    [][ call' # NoCall =>
          /\ GetError' = GetError
          /\ InsertError' = InsertError
          /\ DeleteError' = DeleteError
          /\ ListError' = ListError
          /\ Hooks' = Hooks
          /\ (DefaultCall(call', "Get") \/ DefaultCall(call', "List")) => Objects' = Objects
          /\ ((DefaultCall(call', "Insert") \/ DefaultCall(call', "Delete")) /\ call'.err # Nil)
                => Objects' = Objects
          /\ (DefaultCall(call', "Insert") /\ call'.err = Nil) =>
                /\ call'.key \notin DOMAIN Objects
                /\ call'.key \in DOMAIN Objects'
                /\ Objects'[call'.key] = call'.obj
                /\ OnlyKeyChanged(call'.key)
          /\ (DefaultCall(call', "Delete") /\ call'.err = Nil) =>
                /\ call'.key \in DOMAIN Objects
                /\ call'.key \notin DOMAIN Objects'
                /\ OnlyKeyChanged(call'.key) ]_vars

\* A Delete has removed one of two stored keys and the other is still
\* there, on a mock with an error registered.
C24_Witness ==
    /\ DefaultCall(call, "Delete")
    /\ call.err = Nil
    /\ Cardinality(DOMAIN Objects) = 1
    /\ call.key \notin DOMAIN Objects
    /\ hist[call.key] = Deleted
    /\ Setups > 0

\* The parse returned the ResourceID of proj, res and key and no error.
Parsed(proj, res, key) ==
    pres = [ret |-> [ProjectID |-> proj, Resource |-> res, Key |-> key], err |-> Nil]

\* C25: the parser looks at the number of segments and at the literal
\* segments only.  A path behind no prefix or a known one, with "projects"
\* first, the right number of segments and the right literal third, is
\* accepted whatever its other segments hold, empty ones included, and
\* they go into the ResourceID as they are: "projects/" gives
\* {"", "projects", nil} and "projects/p/global//" gives
\* {"p", "", GlobalKey("")}.
C25_OnlyCountAndLiterals ==
    (ppc = "done" /\ input.pre \in KnownOrNone
       /\ Len(input.segs) >= 2 /\ input.segs[1] = <<"projects">>) =>
        LET s == input.segs
            n == Len(input.segs)
        IN  /\ n = 2 => Parsed(s[2], <<"projects">>, Nil)
            /\ (n = 4 /\ s[3] \in { <<"regions">>, <<"zones">> }) =>
                  Parsed(s[2], s[3], [Name |-> s[4], Zone |-> <<>>, Region |-> <<>>])
            /\ (n = 5 /\ s[3] = <<"global">>) =>
                  Parsed(s[2], s[4], [Name |-> s[5], Zone |-> <<>>, Region |-> <<>>])
            /\ (n = 6 /\ s[3] = <<"regions">>) =>
                  Parsed(s[2], s[5], [Name |-> s[6], Zone |-> <<>>, Region |-> s[4]])
            /\ (n = 6 /\ s[3] = <<"zones">>) =>
                  Parsed(s[2], s[5], [Name |-> s[6], Zone |-> s[4], Region |-> <<>>])
            /\ url = <<"projects", "/">> => Parsed(<<>>, <<"projects">>, Nil)
            /\ url = <<"projects", "/", "p", "/", "global", "/", "/">> =>
                  Parsed(<<"p">>, <<>>, [Name |-> <<>>, Zone |-> <<>>, Region |-> <<>>])

\* "projects/p/global//" has been parsed to a ResourceID with an empty
\* resource and an empty name.
C25_Witness ==
    /\ ppc = "done"
    /\ url = <<"projects", "/", "p", "/", "global", "/", "/">>
    /\ pres.err = Nil
    /\ pres.ret.ProjectID = <<"p">>
    /\ pres.ret.Resource = <<>>
    /\ pres.ret.Key.Name = <<>>

====
